---- MODULE Spec2Model ----
(***************************************************************************)
(* ActivityHandler (samples/javascript_typescript/30.activity-handler):    *)
(* a registry of handler chains keyed by category, `on`, and `run`, which  *)
(* dispatches one activity through the nested chains by continuation       *)
(* passing (`handle` / `runHandler`).                                      *)
(*                                                                         *)
(* The async functions are modelled as stacks of frames, one stack per     *)
(* chain of awaits ("thread").  A call runs synchronously down to the      *)
(* first handler body (CallHandle, CallRunHandler, CallOnNext); a return   *)
(* resumes the awaiting frames (Resume); a rejection travels up the        *)
(* awaiting frames (Reject).  The bodies of the handlers are not part of   *)
(* the class: every invoked handler picks, in a step of its own, one of    *)
(* the Behaviours.  A step of the model is one handler body acting,        *)
(* together with the engine code that runs until the next handler body is  *)
(* entered: the engine's own await resumptions in between touch nothing    *)
(* but the stack of their thread.                                          *)
(***************************************************************************)
EXTENDS Naturals, Sequences, FiniteSets, TLC

\* lastOn: the call of on() just made, until run() is called next
VARIABLES handlers, runs, lastOn

vars == <<handlers, runs, lastOn>>

(***************************************************************************)
(* Bounds                                                                  *)
(***************************************************************************)
\* on() calls made in all
MaxHandlers == 2
\* on() calls made in all when they are made for TurnPath only
MaxTurnPathHandlers == 3
\* on() calls made in all when they are made for BranchPath only
MaxBranchHandlers == 2
\* on() calls made in all when no run is made
MaxRegistered == 3
\* on() calls made in all when two runs are in flight at once
MaxConcurrentHandlers == 2

(***************************************************************************)
(* Categories, activities                                                  *)
(***************************************************************************)
Categories ==
    {"Turn", "Message", "ContactRelationUpdate", "ConversationUpdate",
     "ConversationMembersAdded", "ConversationMembersRemoved",
     "EndOfConversation", "Event", "Invoke", "InstallationUpdate",
     "MessageDelete", "MessageUpdate", "MessageReaction",
     "MessageReactionAdded", "MessageReactionRemoved", "Typing", "Handoff",
     "CreateConversation", "ContinueConversation",
     "UnrecognizedActivityType", "Dialog"}

\* the handler functions a bot registers
BotHandlers == {"h1", "h2"}

\* ActivityTypes.X of the twelve case labels
KnownTypes ==
    {"message", "contactRelationUpdate", "conversationUpdate",
     "endOfConversation", "event", "invoke", "installationUpdate",
     "messageDelete", "messageUpdate", "messageReaction", "typing", "handoff"}

\* activity.type: a case label, another string, or no type at all
Types == KnownTypes \cup {"SomeUnknownType", "undefined"}

\* activity.name
Names == {"undefined", "createConversation", "continueConversation", "other"}

\* An optional list is <<>> when absent and <<list>> when present.
Lists == {<<>>, << <<>> >>, << <<"x">> >>}

AllActivities ==
    [type : Types, name : Names, membersAdded : Lists, membersRemoved : Lists,
     reactionsAdded : Lists, reactionsRemoved : Lists]

\* the fields run() reads for an activity of this type
FieldsRead(type) ==
    CASE type = "conversationUpdate" -> {"membersAdded", "membersRemoved"}
      [] type = "event" -> {"name"}
      [] type = "messageReaction" -> {"reactionsAdded", "reactionsRemoved"}
      [] OTHER -> {}

FieldUnset(a, f) == IF f = "name" THEN a[f] = "undefined" ELSE a[f] = <<>>
FieldSet(a, f) == IF f = "name" THEN a[f] = "createConversation" ELSE a[f] = << <<"x">> >>

\* The activities dispatched: every value of the fields run() reads for the
\* type with the other fields missing, and the other fields all filled in
\* with the fields read all missing or all filled in.
Activities ==
    {a \in AllActivities :
        LET read == FieldsRead(a.type)
            others == {"name", "membersAdded", "membersRemoved",
                       "reactionsAdded", "reactionsRemoved"} \ read
        IN  \/ \A f \in others : FieldUnset(a, f)
            \/ /\ \A f \in others : FieldSet(a, f)
               /\ \/ \A f \in read : FieldUnset(a, f)
                  \/ \A f \in read : FieldSet(a, f)}

NoActivity ==
    [type |-> "undefined", name |-> "undefined", membersAdded |-> <<>>,
     membersRemoved |-> <<>>, reactionsAdded |-> <<>>, reactionsRemoved |-> <<>>]

\* `list && list.length > 0` (lines 117, 119)
NonEmpty(list) == list # <<>> /\ Len(list[1]) > 0

\* `list && list.length` (lines 154, 157)
Truthy(list) == list # <<>> /\ Len(list[1]) # 0

(***************************************************************************)
(* The registry                                                            *)
(***************************************************************************)
\* `this.handlers[type] || []` (line 193)
ChainFor(type) == IF type \in DOMAIN handlers THEN handlers[type] ELSE <<>>

Registered ==
    LET RECURSIVE Sum(_)
        Sum(S) == IF S = {} THEN 0
                  ELSE LET c == CHOOSE x \in S : TRUE
                       IN  Len(handlers[c]) + Sum(S \ {c})
    IN  Sum(DOMAIN handlers)

(***************************************************************************)
(* Frames, trace                                                           *)
(***************************************************************************)
Behaviours == {"pass", "veto", "throw", "detach", "twice"}

Frame(k, cat, idx, next, path, pc) ==
    [k |-> k, cat |-> cat, idx |-> idx, next |-> next, path |-> path, pc |-> pc]

\* run(), awaiting handle(context, 'Turn', ...)
RunFrame == Frame("run", "", 0, "", <<>>, "")

TraceEvent(ev, cat, idx, path) ==
    [ev |-> ev, cat |-> cat, idx |-> idx, path |-> path]

Log(m, ev, cat, idx, path) ==
    [m EXCEPT !.trace = Append(@, TraceEvent(ev, cat, idx, path))]

Push(m, f) == [m EXCEPT !.stack = Append(@, f)]
Pop(m) == [m EXCEPT !.stack = SubSeq(@, 1, Len(@) - 1)]
Top(m) == m.stack[Len(m.stack)]
SetPc(m, pc) == [m EXCEPT !.stack[Len(m.stack)].pc = pc]


NoError == [cat |-> "", idx |-> 0, path |-> <<>>]

(***************************************************************************)
(* run(): the resolution tree (lines 95-173)                               *)
(***************************************************************************)
\* a bug: no default case, an unmatched type is taken for a message
TypeCategoryWithoutDefault(type) ==
    CASE type = "contactRelationUpdate" -> "ContactRelationUpdate"
      [] type = "conversationUpdate" -> "ConversationUpdate"
      [] type = "endOfConversation" -> "EndOfConversation"
      [] type = "event" -> "Event"
      [] type = "invoke" -> "Invoke"
      [] type = "installationUpdate" -> "InstallationUpdate"
      [] type = "messageDelete" -> "MessageDelete"
      [] type = "messageUpdate" -> "MessageUpdate"
      [] type = "messageReaction" -> "MessageReaction"
      [] type = "typing" -> "Typing"
      [] type = "handoff" -> "Handoff"
      [] OTHER -> "Message"

\* the case labels of the switch (lines 108-170)
TypeCategory(type) ==
    CASE type = "message" -> "Message"
      [] type = "contactRelationUpdate" -> "ContactRelationUpdate"
      [] type = "conversationUpdate" -> "ConversationUpdate"
      [] type = "endOfConversation" -> "EndOfConversation"
      [] type = "event" -> "Event"
      [] type = "invoke" -> "Invoke"
      [] type = "installationUpdate" -> "InstallationUpdate"
      [] type = "messageDelete" -> "MessageDelete"
      [] type = "messageUpdate" -> "MessageUpdate"
      [] type = "messageReaction" -> "MessageReaction"
      [] type = "typing" -> "Typing"
      [] type = "handoff" -> "Handoff"
      [] OTHER -> "UnrecognizedActivityType"

\* a bug: the Message case is given the closure of the ConversationUpdate
\* case
OnNextOfMessageBranches(cat) ==
    CASE cat = "Turn" -> "switch"
      [] cat = "ConversationUpdate" -> "conversationUpdateNext"
      [] cat = "Message" -> "conversationUpdateNext"
      [] cat = "Event" -> "eventNext"
      [] cat = "Dialog" -> "noop"
      [] OTHER -> "runDialogs"

\* a bug: the MessageReactionAdded call is given no continuation of its own
OnNextOfReactionAddedNoop(cat) ==
    CASE cat = "Turn" -> "switch"
      [] cat = "ConversationUpdate" -> "conversationUpdateNext"
      [] cat = "Event" -> "eventNext"
      [] cat = "Dialog" -> "noop"
      [] cat = "MessageReactionAdded" -> "noop"
      [] OTHER -> "runDialogs"

\* the onNext each handle() call of run() passes: 'Turn' gets the switch,
\* 'ConversationUpdate' and 'Event' their own closures, 'Dialog' the noop,
\* every other category runDialogs
OnNextOf(cat) ==
    CASE cat = "Turn" -> "switch"
      [] cat = "ConversationUpdate" -> "conversationUpdateNext"
      [] cat = "Event" -> "eventNext"
      [] cat = "Dialog" -> "noop"
      [] OTHER -> "runDialogs"

\* a bug: two independent ifs, membersRemoved wins when both lists are filled
ConversationUpdateBranchRemovedWins(a) ==
    IF NonEmpty(a.membersRemoved) THEN "ConversationMembersRemoved"
    ELSE IF NonEmpty(a.membersAdded) THEN "ConversationMembersAdded"
    ELSE ""

\* the closure given to handle(context, 'ConversationUpdate', ...): the
\* category it dispatches, "" for `await runDialogs()` (lines 116-124)
ConversationUpdateBranch(a) ==
    IF NonEmpty(a.membersAdded) THEN "ConversationMembersAdded"
    ELSE IF NonEmpty(a.membersRemoved) THEN "ConversationMembersRemoved"
    ELSE ""

\* a bug: the second test is missing, every name but createConversation is
\* taken for continueConversation
EventBranchWithoutSecondTest(a) ==
    IF a.name = "createConversation" THEN "CreateConversation"
    ELSE "ContinueConversation"

\* the closure given to handle(context, 'Event', ...) (lines 130-138)
EventBranch(a) ==
    IF a.name = "createConversation" THEN "CreateConversation"
    ELSE IF a.name = "continueConversation" THEN "ContinueConversation"
    ELSE ""

\* a bug: the second test is an else-if, MessageReactionRemoved is dispatched
\* only when MessageReactionAdded was not
SwitchAfterElseIf(pc, a) ==
    CASE pc = "MessageReaction" ->
            IF Truthy(a.reactionsAdded) THEN "MessageReactionAdded"
            ELSE IF Truthy(a.reactionsRemoved) THEN "MessageReactionRemoved"
            ELSE ""
      [] OTHER -> ""

\* The switch after the handle() call for category `pc` has returned: the
\* category of its next handle() call, "" at the break.  Only the
\* MessageReaction case has a second and a third call (lines 153-160).
SwitchAfter(pc, a) ==
    CASE pc = "MessageReaction" ->
            IF Truthy(a.reactionsAdded) THEN "MessageReactionAdded"
            ELSE IF Truthy(a.reactionsRemoved) THEN "MessageReactionRemoved"
            ELSE ""
      [] pc = "MessageReactionAdded" ->
            IF Truthy(a.reactionsRemoved) THEN "MessageReactionRemoved" ELSE ""
      [] OTHER -> ""

(***************************************************************************)
(* handle() and runHandler() (lines 184-195)                               *)
(***************************************************************************)
\* `index < handlers.length` (line 186)
InChain(index, chain) == index < Len(chain)

\* a bug: the continuation skips a handler
NextIndexSkips(index) == index + 2

\* `runHandler(index + 1)` (line 187)
NextIndex(index) == index + 1

RECURSIVE CallRunHandler(_, _, _, _, _)
RECURSIVE CallOnNext(_, _, _)
RECURSIVE Resume(_)

\* a bug: runHandler goes on to the next handler itself once the handler it
\* awaited has returned
AfterAwaitFallsThrough(m) ==
    IF InChain(Top(m).idx, ChainFor(Top(m).cat))
    THEN CallRunHandler(Pop(m), Top(m).cat, NextIndex(Top(m).idx), Top(m).next, Top(m).path)
    ELSE Resume(Pop(m))

\* runHandler after its await (lines 187, 189): nothing follows, it returns
AfterAwait(m) == Resume(Pop(m))

\* handle(context, cat, next), called inside the chains of `path`
CallHandle(m, cat, next, path) ==
    CallRunHandler(Log(m, "dispatch", cat, 0, Append(path, cat)),
                   cat, 0, next, Append(path, cat))

\* a bug: `handlers[index](...)` without await, runHandler returns while the
\* handler body is still to run
CallRunHandlerNoAwait(m, cat, index, next, path) ==
    IF InChain(index, ChainFor(cat))
    THEN Resume([Log(m, "invoke", cat, index, path) EXCEPT
                    !.spawned = Append(@, <<Frame("handler", cat, index, next, path, "start")>>)])
    ELSE CallOnNext(Push(m, Frame("runHandler", cat, index, next, path, "")), next, path)

\* a bug: runHandler returns at once when the chain holds no handler
CallRunHandlerReturnsWhenEmpty(m, cat, index, next, path) ==
    LET m1 == Push(m, Frame("runHandler", cat, index, next, path, ""))
    IN  IF InChain(index, ChainFor(cat))
        THEN Push(Log(m1, "invoke", cat, index, path),
                  Frame("handler", cat, index, next, path, "start"))
        ELSE IF ChainFor(cat) = <<>> THEN Resume(Pop(m1))
        ELSE CallOnNext(m1, next, path)

\* a bug: runHandler starts handlers[index] and goes on to the next handler
\* without waiting for it
CallRunHandlerStartsAll(m, cat, index, next, path) ==
    IF InChain(index, ChainFor(cat))
    THEN CallRunHandler(
            [Log(m, "invoke", cat, index, path) EXCEPT
                !.spawned = Append(@, <<Frame("handler", cat, index, next, path, "start")>>)],
            cat, NextIndex(index), next, path)
    ELSE CallOnNext(Push(m, Frame("runHandler", cat, index, next, path, "")), next, path)

\* runHandler(index): enters handlers[index], or onNext past the chain's end
CallRunHandler(m, cat, index, next, path) ==
    LET m1 == Push(m, Frame("runHandler", cat, index, next, path, ""))
    IN  IF InChain(index, ChainFor(cat))
        THEN Push(Log(m1, "invoke", cat, index, path),
                  Frame("handler", cat, index, next, path, "start"))
        ELSE CallOnNext(m1, next, path)

\* onNext(): one of the closures of run()
CallOnNext(m, next, path) ==
    CASE next = "noop" -> Resume(m)
      [] next = "runDialogs" ->
            CallHandle(Push(m, Frame("runDialogs", "", 0, "", path, "")),
                       "Dialog", OnNextOf("Dialog"), path)
      [] next = "switch" ->
            LET cat == TypeCategory(m.activity.type)
            IN  CallHandle(Push(m, Frame("switch", "", 0, "", path, cat)),
                           cat, OnNextOf(cat), path)
      [] next = "conversationUpdateNext" ->
            LET sub == ConversationUpdateBranch(m.activity)
                m1 == Push(m, Frame("conversationUpdateNext", "", 0, "", path, ""))
            IN  IF sub = "" THEN CallOnNext(m1, "runDialogs", path)
                ELSE CallHandle(m1, sub, OnNextOf(sub), path)
      [] next = "eventNext" ->
            LET sub == EventBranch(m.activity)
                m1 == Push(m, Frame("eventNext", "", 0, "", path, ""))
            IN  IF sub = "" THEN CallOnNext(m1, "runDialogs", path)
                ELSE CallHandle(m1, sub, OnNextOf(sub), path)

\* a bug: the continuation is guarded, a second call of it returns at once
ResumeGuarded(m) ==
    IF m.stack = <<>> THEN m
    ELSE LET f == Top(m)
         IN  CASE f.k = "run" ->
                    Log([Pop(m) EXCEPT !.status = "completed"], "completed", "", 0, <<>>)
               [] f.k = "switch" ->
                    LET cat == SwitchAfter(f.pc, m.activity)
                    IN  IF cat = "" THEN Resume(Pop(m))
                        ELSE CallHandle(SetPc(m, cat), cat, OnNextOf(cat), f.path)
               [] f.k = "runHandler" -> AfterAwait(m)
               [] f.k = "handler" /\ f.pc = "twice" ->
                    Resume(Pop(Log(SetPc(m, "again"), "again", f.cat, f.idx, f.path)))
               [] OTHER -> Resume(Pop(m))

\* The call awaited by the top frame has returned.  An empty stack is a
\* promise nobody awaits.
Resume(m) ==
    IF m.stack = <<>> THEN m
    ELSE LET f == Top(m)
         IN  CASE f.k = "run" ->
                    Log([Pop(m) EXCEPT !.status = "completed"], "completed", "", 0, <<>>)
               [] f.k = "switch" ->
                    LET cat == SwitchAfter(f.pc, m.activity)
                    IN  IF cat = "" THEN Resume(Pop(m))
                        ELSE CallHandle(SetPc(m, cat), cat, OnNextOf(cat), f.path)
               [] f.k = "runHandler" -> AfterAwait(m)
               [] f.k = "handler" /\ f.pc = "twice" ->
                    CallRunHandler(Log(SetPc(m, "again"), "again", f.cat, f.idx, f.path),
                                   f.cat, NextIndex(f.idx), f.next, f.path)
               [] OTHER -> Resume(Pop(m))

\* a bug: runHandler catches what the handler throws and returns
RejectCaught(m, err) == Resume(m)

\* The call awaited by the top frame has failed with `err`: no frame catches,
\* so the failure leaves run(); off an empty stack it is nobody's.
RECURSIVE Reject(_, _)
Reject(m, err) ==
    IF m.stack = <<>> THEN Log(m, "unhandled", err.cat, err.idx, err.path)
    ELSE LET f == Top(m)
         IN  CASE f.k = "run" ->
                    Log([Pop(m) EXCEPT !.status = "failed", !.error = err],
                        "failed", err.cat, err.idx, err.path)
               [] OTHER -> Reject(Pop(m), err)

(***************************************************************************)
(* State                                                                   *)
(***************************************************************************)
\* the calls of run() followed: two contexts, so that two runs can be in
\* flight at once
RunIds == {1, 2}

\* choice: what the body of the handler at <<category, index>> does, fixed
\* at its first invocation in the run
IdleRun ==
    [status |-> "idle", activity |-> NoActivity, error |-> NoError,
     trace |-> <<>>, threads |-> <<>>, choice |-> << >>]

\* run r has been called and a promise of it is still pending
InFlight(r) == runs[r].status = "running" \/ runs[r].threads # <<>>

\* no call of on() has just been made
NoCall == [type |-> "", handler |-> "", before |-> << >>, returned |-> ""]

Init ==
    /\ handlers = << >>
    /\ lastOn = NoCall
    /\ runs = [r \in RunIds |-> IdleRun]

\* a bug: run() keeps its context on the object, every run reads the
\* context of the first
MachineOfSharedContext(r, t) ==
    [stack |-> runs[r].threads[t], trace |-> runs[r].trace,
     status |-> runs[r].status, error |-> runs[r].error,
     activity |-> runs[1].activity, spawned |-> <<>>]

\* the machine of thread t of run r
Machine(r, t) ==
    [stack |-> runs[r].threads[t], trace |-> runs[r].trace,
     status |-> runs[r].status, error |-> runs[r].error,
     activity |-> runs[r].activity, spawned |-> <<>>]

Compact(stacks) == SelectSeq(stacks, LAMBDA s : s # <<>>)

\* thread t of run r is inside a handler body that has not acted yet, and
\* the body is free to do `beh`
AtHandler(r, t, beh) ==
    /\ t \in DOMAIN runs[r].threads
    /\ LET f == Top(Machine(r, t))
       IN  /\ f.k = "handler"
           /\ f.pc = "start"
           /\ <<f.cat, f.idx>> \in DOMAIN runs[r].choice
                => runs[r].choice[<<f.cat, f.idx>>] = beh

\* a bug: runHandler takes the handlers off the chain as it invokes them
\* (shift() in place of the index), so a chain that ran is left empty
RegistryAfterShift(m) ==
    [c \in DOMAIN handlers |->
        IF \E k \in DOMAIN m.trace : m.trace[k].ev = "invoke" /\ m.trace[k].cat = c
        THEN <<>> ELSE handlers[c]]

\* this.handlers after the dispatch that left the machine in m: handle() and
\* runHandler() read the chain (lines 186-187, 193) and assign nothing
RegistryAfter(m) == handlers

\* run r after thread t's handler body did `beh` and left the machine in m
Store(r, t, beh, m) ==
    LET f == Top(Machine(r, t))
    IN  /\ runs' = [runs EXCEPT ![r] =
                [status |-> m.status, activity |-> runs[r].activity,
                 error |-> m.error, trace |-> m.trace,
                 threads |-> Compact([runs[r].threads EXCEPT ![t] = m.stack]
                                     \o m.spawned),
                 choice |-> (<<f.cat, f.idx>> :> beh) @@ runs[r].choice]]
        /\ handlers' = RegistryAfter(m)

(***************************************************************************)
(* Operations of the class                                                 *)
(***************************************************************************)
\* a bug: a handler already in the chain is not added again
OnSkipsRegistered(type, handler) ==
    /\ \A r \in RunIds : runs[r].status = "idle"
    /\ handlers' = IF type \notin DOMAIN handlers
                   THEN (type :> <<handler>>) @@ handlers
                   ELSE IF \E i \in DOMAIN handlers[type] : handlers[type][i] = handler
                   THEN handlers
                   ELSE [handlers EXCEPT ![type] = Append(@, handler)]
    /\ lastOn' = [type |-> type, handler |-> handler, before |-> handlers,
                  returned |-> "this"]
    /\ UNCHANGED runs

\* on(type, handler) (lines 175-182); registration happens before the runs
On(type, handler) ==
    /\ \A r \in RunIds : runs[r].status = "idle"
    /\ handlers' = IF type \notin DOMAIN handlers
                   THEN (type :> <<handler>>) @@ handlers
                   ELSE [handlers EXCEPT ![type] = Append(@, handler)]
    /\ lastOn' = [type |-> type, handler |-> handler, before |-> handlers,
                  returned |-> "this"]
    /\ UNCHANGED runs

\* a bug: run() enters the switch without the 'Turn' chain around it
StartRunWithoutTurn(r, a) ==
    /\ runs[r].status = "idle"
    /\ LET m0 == [stack |-> <<RunFrame>>, trace |-> <<>>, status |-> "running",
                  error |-> NoError, activity |-> a, spawned |-> <<>>]
           m == CallOnNext(m0, "switch", <<>>)
       IN  /\ runs' = [runs EXCEPT ![r] =
                      [status |-> m.status, activity |-> a, error |-> m.error,
                       trace |-> m.trace,
                       threads |-> Compact(<<m.stack>> \o m.spawned),
                       choice |-> << >>]]
           /\ handlers' = RegistryAfter(m)
    /\ lastOn' = NoCall

\* the machine of run(context) called with activity a, up to the first
\* handler body (lines 95-107)
Entered(a) ==
    CallHandle([stack |-> <<RunFrame>>, trace |-> <<>>, status |-> "running",
                error |-> NoError, activity |-> a, spawned |-> <<>>],
               "Turn", OnNextOf("Turn"), <<>>)

\* run(context) (lines 95-173), up to the first handler body
StartRun(r, a) ==
    /\ runs[r].status = "idle"
    /\ LET m == Entered(a)
       IN  /\ runs' = [runs EXCEPT ![r] =
                      [status |-> m.status, activity |-> a, error |-> m.error,
                       trace |-> m.trace,
                       threads |-> Compact(<<m.stack>> \o m.spawned),
                       choice |-> << >>]]
           /\ handlers' = RegistryAfter(m)
    /\ lastOn' = NoCall

\* The caller of run() is done with a run whose promises have all settled
\* and drops its context; the same registry then serves the next run.
Forget(r) ==
    /\ runs[r].status \in {"completed", "failed"}
    /\ ~InFlight(r)
    /\ runs' = [runs EXCEPT ![r] = IdleRun]
    /\ UNCHANGED <<handlers, lastOn>>

(***************************************************************************)
(* Handler bodies (BotHandler, line 3)                                     *)
(***************************************************************************)
\* the continuation given to handlers[index]: () => runHandler(index + 1)
CallNext(m, f) == CallRunHandler(m, f.cat, NextIndex(f.idx), f.next, f.path)

\* The machine after the handler body on top of m did `beh`, for the bodies
\* that wait for every continuation call they make:
\*   pass   `await next();`
\*   veto   returns without calling next
\*   throw  `throw err;`
\*   twice  `await next(); await next();` (the second call is made in Resume)
Acted(m, beh) ==
    LET f == Top(m)
    IN  CASE beh = "pass" ->
                CallNext(Log(SetPc(m, "pass"), "pass", f.cat, f.idx, f.path), f)
          [] beh = "veto" ->
                Resume(Pop(Log(m, "veto", f.cat, f.idx, f.path)))
          [] beh = "throw" ->
                Reject(Pop(Log(m, "throw", f.cat, f.idx, f.path)),
                       [cat |-> f.cat, idx |-> f.idx, path |-> f.path])
          [] beh = "twice" ->
                CallNext(Log(SetPc(m, "twice"), "twice", f.cat, f.idx, f.path), f)

\* `await next();`
Pass(r, t) ==
    /\ AtHandler(r, t, "pass")
    /\ Store(r, t, "pass", Acted(Machine(r, t), "pass"))
    /\ UNCHANGED lastOn

\* returns without calling next
Veto(r, t) ==
    /\ AtHandler(r, t, "veto")
    /\ Store(r, t, "veto", Acted(Machine(r, t), "veto"))
    /\ UNCHANGED lastOn

\* `throw err;`
Throw(r, t) ==
    /\ AtHandler(r, t, "throw")
    /\ Store(r, t, "throw", Acted(Machine(r, t), "throw"))
    /\ UNCHANGED lastOn

\* `next();` without await: the rest of the chain is a thread of its own,
\* and the body goes on
Detach(r, t) ==
    /\ AtHandler(r, t, "detach")
    /\ LET m == Machine(r, t)
           f == Top(m)
           forked == CallNext([Log(m, "detach", f.cat, f.idx, f.path)
                                 EXCEPT !.stack = <<>>], f)
       IN  Store(r, t, "detach",
                 [forked EXCEPT !.stack = SetPc(m, "detached").stack,
                                !.spawned = Append(@, forked.stack)])
    /\ UNCHANGED lastOn

\* the body that called next() without await returns
Return(r, t) ==
    /\ t \in DOMAIN runs[r].threads
    /\ Top(Machine(r, t)).k = "handler"
    /\ Top(Machine(r, t)).pc = "detached"
    /\ Store(r, t, "detach", Resume(Pop(Machine(r, t))))
    /\ UNCHANGED lastOn

\* `await next(); await next();`
Twice(r, t) ==
    /\ AtHandler(r, t, "twice")
    /\ Store(r, t, "twice", Acted(Machine(r, t), "twice"))
    /\ UNCHANGED lastOn

HandlerStep(r) ==
    \E t \in DOMAIN runs[r].threads :
        \/ Pass(r, t)
        \/ Veto(r, t)
        \/ Throw(r, t)
        \/ Detach(r, t)
        \/ Return(r, t)
        \/ Twice(r, t)

Next ==
    \/ \E type \in Categories : Registered < MaxHandlers /\ On(type, "h1")
    \/ \E a \in Activities : StartRun(1, a)
    \/ HandlerStep(1)
    \/ Forget(1)

Spec == Init /\ [][Next]_vars

\* The same class with a bot that registers on the categories of a message's
\* path only and is sent messages and typing activities, which leaves room
\* for longer chains.
TurnPath == {"Turn", "Message", "Dialog"}

TurnPathActivities == {a \in Activities : a.type \in {"message", "typing"}}

NextTurnPath ==
    \/ \E type \in TurnPath : Registered < MaxTurnPathHandlers /\ On(type, "h1")
    \/ \E a \in TurnPathActivities : StartRun(1, a)
    \/ HandlerStep(1)
    \/ Forget(1)

SpecTurnPath == Init /\ [][NextTurnPath]_vars

\* The same class with a bot that registers on the categories of the
\* branching cases only (ConversationUpdate, Event, default) and is sent the
\* activities of these cases.
BranchPath ==
    {"Turn", "ConversationUpdate", "ConversationMembersAdded",
     "ConversationMembersRemoved", "Event", "CreateConversation",
     "ContinueConversation", "UnrecognizedActivityType", "Dialog"}

BranchActivities ==
    {a \in Activities :
        a.type \in {"conversationUpdate", "event", "SomeUnknownType", "undefined"}}

NextBranch ==
    \/ \E type \in BranchPath : Registered < MaxBranchHandlers /\ On(type, "h1")
    \/ \E a \in BranchActivities : StartRun(1, a)
    \/ HandlerStep(1)
    \/ Forget(1)

SpecBranch == Init /\ [][NextBranch]_vars

\* The setup of a bot: calls of on() only, for any category, with two
\* handler functions.
NextRegister ==
    \E type \in Categories : \E handler \in BotHandlers :
        Registered < MaxRegistered /\ On(type, handler)

SpecRegister == Init /\ [][NextRegister]_vars

\* The same class called by a host that dispatches two activities at once:
\* the handler steps of the two runs interleave in every way.  The bot
\* registers on the two categories every activity goes through; the first
\* context is given a message or a typing activity, the second a message
\* (the two contexts are interchangeable).
ConcurrentPath == {"Turn", "Dialog"}

ConcurrentActivities ==
    {a \in Activities :
        /\ a.type \in {"message", "typing"}
        /\ \A f \in {"name", "membersAdded", "membersRemoved",
                      "reactionsAdded", "reactionsRemoved"} : FieldUnset(a, f)}

NextConcurrent ==
    \/ \E type \in ConcurrentPath :
            Registered < MaxConcurrentHandlers /\ On(type, "h1")
    \/ \E r \in RunIds : \E a \in ConcurrentActivities :
            (r = 1 \/ a.type = "message") /\ StartRun(r, a)
    \/ \E r \in RunIds : HandlerStep(r)
    \/ \E r \in RunIds : Forget(r)

SpecConcurrent == Init /\ [][NextConcurrent]_vars

(***************************************************************************)
(* Reading a run's trace                                                   *)
(***************************************************************************)
\* the events of kind `ev`, in order
Events(r, ev) == SelectSeq(runs[r].trace, LAMBDA e : e.ev = ev)

\* the categories handle() was called for, in order
Dispatched(r) == [i \in DOMAIN Events(r, "dispatch") |-> Events(r, "dispatch")[i].cat]

\* the <<category, index>> of the handlers invoked, in order
Invoked(r) ==
    [i \in DOMAIN Events(r, "invoke") |->
        <<Events(r, "invoke")[i].cat, Events(r, "invoke")[i].idx>>]

\* the indexes of the handlers of category c invoked, in order
InvokedOf(r, c) ==
    LET inv == SelectSeq(runs[r].trace, LAMBDA e : e.ev = "invoke" /\ e.cat = c)
    IN  [i \in DOMAIN inv |-> inv[i].idx]

\* <<0, 1, ..., n - 1>>
Indexes(n) == [i \in 1..n |-> i - 1]

\* the handler at <<c, i>> called its continuation
CalledNext(r, c, i) ==
    \E k \in DOMAIN runs[r].trace :
        /\ runs[r].trace[k].ev \in {"pass", "detach", "twice", "again"}
        /\ runs[r].trace[k].cat = c
        /\ runs[r].trace[k].idx = i

\* run r has settled and so has every promise made in it
Quiescent(r) == runs[r].status \in {"completed", "failed"} /\ ~InFlight(r)

\* every handler body that acted called its continuation exactly once and
\* did not fail
EveryHandlerContinues(r) ==
    \A k \in DOMAIN runs[r].trace :
        runs[r].trace[k].ev \notin {"veto", "throw", "twice", "again", "unhandled"}

\* no handler body called its continuation without awaiting it
EveryHandlerAwaits(r) ==
    \A k \in DOMAIN runs[r].trace : runs[r].trace[k].ev # "detach"

Range(seq) == {seq[i] : i \in DOMAIN seq}

\* p is a proper prefix of q
StrictPrefix(p, q) == Len(p) < Len(q) /\ SubSeq(q, 1, Len(p)) = p

(***************************************************************************)
(* C1  Order preservation                                                  *)
(***************************************************************************)
\* C1: in a settled run in which every handler called its continuation
\* exactly once and none failed, the handlers of every dispatched category
\* were invoked in registration order H1..Hn, each exactly once.
C1_OrderPreservation ==
    \A r \in RunIds :
        Quiescent(r) /\ EveryHandlerContinues(r) =>
            \A k \in DOMAIN Dispatched(r) :
                InvokedOf(r, Dispatched(r)[k]) = Indexes(Len(ChainFor(Dispatched(r)[k])))

\* The same for one chain that is dispatched once: the chains other than
\* Dialog keep the order and the multiplicity.
C1_OrderOfNonDialogChains ==
    \A r \in RunIds :
        Quiescent(r) /\ EveryHandlerContinues(r) =>
            \A k \in DOMAIN Dispatched(r) :
                Dispatched(r)[k] # "Dialog" =>
                    InvokedOf(r, Dispatched(r)[k]) = Indexes(Len(ChainFor(Dispatched(r)[k])))

(***************************************************************************)
(* C2  Veto                                                                *)
(***************************************************************************)
\* C2: a handler that was invoked and has not called its continuation stops
\* its chain: no later handler of the chain has been invoked, no chain
\* nested beneath its category (the Dialog chain of that path included) has
\* been dispatched, while the handlers before it in the chain and all the
\* handlers of the enclosing categories have been invoked.
C2_Veto ==
    \A r \in RunIds : \A k \in DOMAIN runs[r].trace :
        LET e == runs[r].trace[k]
        IN  e.ev = "invoke" /\ ~CalledNext(r, e.cat, e.idx) =>
              /\ \A j \in DOMAIN runs[r].trace :
                    LET d == runs[r].trace[j]
                    IN  /\ d.ev = "invoke" /\ d.cat = e.cat => d.idx <= e.idx
                        /\ d.ev = "dispatch" => ~StrictPrefix(e.path, d.path)
              /\ \A i \in 0..(e.idx - 1) : <<e.cat, i>> \in Range(Invoked(r))
              /\ \A n \in 1..(Len(e.path) - 1) :
                    \A i \in 0..(Len(ChainFor(e.path[n])) - 1) :
                        <<e.path[n], i>> \in Range(Invoked(r))

\* the second handler of a chain vetoed, the first ran, the run completed
\* and Dialog was not dispatched
C2_Witness ==
    \E k \in DOMAIN runs[1].trace :
        /\ runs[1].trace[k].ev = "veto"
        /\ runs[1].trace[k].idx = 1
        /\ runs[1].trace[k].cat # "Dialog"
        /\ <<runs[1].trace[k].cat, 0>> \in Range(Invoked(1))
        /\ runs[1].status = "completed"
        /\ "Dialog" \notin Range(Dispatched(1))

(***************************************************************************)
(* C3  Dialog fires last                                                   *)
(***************************************************************************)
\* C3: once a Dialog handler has been invoked in a run, no handler of
\* another category is invoked later in that run.
C3_DialogFiresLast ==
    \A r \in RunIds : \A j, k \in DOMAIN runs[r].trace :
        /\ j < k
        /\ runs[r].trace[j].ev = "invoke" /\ runs[r].trace[j].cat = "Dialog"
        /\ runs[r].trace[k].ev = "invoke"
        => runs[r].trace[k].cat = "Dialog"

(***************************************************************************)
(* C4  MessageReaction non-exclusivity                                     *)
(***************************************************************************)
\* C4: a messageReaction activity with both reaction lists non-empty, every
\* handler continuing: beneath Turn the run dispatches MessageReaction,
\* then MessageReactionAdded, then MessageReactionRemoved, then Dialog.
C4_ReactionChainsThenDialog ==
    \A r \in RunIds :
        /\ Quiescent(r) /\ EveryHandlerContinues(r)
        /\ runs[r].activity.type = "messageReaction"
        /\ runs[r].activity.reactionsAdded = << <<"x">> >>
        /\ runs[r].activity.reactionsRemoved = << <<"x">> >>
        => Dispatched(r) = <<"Turn", "MessageReaction", "MessageReactionAdded",
                             "MessageReactionRemoved", "Dialog">>

\* What the code does there when every handler awaits its continuation:
\* each of the three chains is followed by a Dialog dispatch of its own.
C4_ReactionChainsEachWithDialog ==
    \A r \in RunIds :
        /\ Quiescent(r) /\ EveryHandlerContinues(r) /\ EveryHandlerAwaits(r)
        /\ runs[r].activity.type = "messageReaction"
        /\ runs[r].activity.reactionsAdded = << <<"x">> >>
        /\ runs[r].activity.reactionsRemoved = << <<"x">> >>
        => Dispatched(r) = <<"Turn", "MessageReaction", "Dialog",
                             "MessageReactionAdded", "Dialog",
                             "MessageReactionRemoved", "Dialog">>

(***************************************************************************)
(* C5  Single-leaf path                                                    *)
(***************************************************************************)
\* the category the claim gives each type that has no sub-branch
LeafCategory(type) ==
    CASE type = "message" -> "Message"
      [] type = "contactRelationUpdate" -> "ContactRelationUpdate"
      [] type = "endOfConversation" -> "EndOfConversation"
      [] type = "invoke" -> "Invoke"
      [] type = "installationUpdate" -> "InstallationUpdate"
      [] type = "messageDelete" -> "MessageDelete"
      [] type = "messageUpdate" -> "MessageUpdate"
      [] type = "typing" -> "Typing"
      [] type = "handoff" -> "Handoff"
      [] OTHER -> ""

\* <<c, 0>>, ..., <<c, n - 1>>
ChainOf(c) == [i \in 1..Len(ChainFor(c)) |-> <<c, i - 1>>]

\* C5: an activity of a type without sub-branch, no Turn handler registered,
\* every handler continuing: the run invokes the type's chain and then the
\* Dialog chain, once each and nothing else, so the invocations number
\* (type chain length) + (Dialog chain length).
C5_SingleLeafPath ==
    \A r \in RunIds :
        /\ Quiescent(r) /\ EveryHandlerContinues(r)
        /\ LeafCategory(runs[r].activity.type) # ""
        /\ ChainFor("Turn") = <<>>
        => LET c == LeafCategory(runs[r].activity.type)
           IN  /\ Invoked(r) = ChainOf(c) \o ChainOf("Dialog")
               /\ Len(Invoked(r)) = Len(ChainFor(c)) + Len(ChainFor("Dialog"))
               /\ Dispatched(r) = <<"Turn", c, "Dialog">>
               /\ runs[r].status = "completed"

\* a message run through a Message handler and a Dialog handler
C5_Witness ==
    /\ Quiescent(1) /\ EveryHandlerContinues(1)
    /\ runs[1].activity.type = "message"
    /\ Invoked(1) = << <<"Message", 0>>, <<"Dialog", 0>> >>

\* a typing run through two Typing handlers
C5_WitnessTwo ==
    /\ Quiescent(1) /\ EveryHandlerContinues(1)
    /\ runs[1].activity.type = "typing"
    /\ Invoked(1) = << <<"Typing", 0>>, <<"Typing", 1>> >>

(***************************************************************************)
(* C6  ConversationUpdate exclusivity                                      *)
(***************************************************************************)
\* the list is present and holds an element
Filled(list) == list = << <<"x">> >>

\* C6: in a conversationUpdate run, ConversationMembersAdded is dispatched
\* only when membersAdded is non-empty, ConversationMembersRemoved only
\* when membersAdded is empty or absent and membersRemoved is non-empty,
\* never both; when every handler continues, the dispatches are Turn,
\* ConversationUpdate, the one sub-category if any, Dialog.
C6_ConversationUpdateExclusivity ==
    \A r \in RunIds :
        runs[r].activity.type = "conversationUpdate" =>
            LET a == runs[r].activity
                d == Dispatched(r)
                sub == IF Filled(a.membersAdded) THEN <<"ConversationMembersAdded">>
                       ELSE IF Filled(a.membersRemoved) THEN <<"ConversationMembersRemoved">>
                       ELSE <<>>
            IN  /\ "ConversationMembersAdded" \in Range(d) => Filled(a.membersAdded)
                /\ "ConversationMembersRemoved" \in Range(d) =>
                        ~Filled(a.membersAdded) /\ Filled(a.membersRemoved)
                /\ ~("ConversationMembersAdded" \in Range(d)
                        /\ "ConversationMembersRemoved" \in Range(d))
                /\ Quiescent(r) /\ EveryHandlerContinues(r) =>
                        d = <<"Turn", "ConversationUpdate">> \o sub \o <<"Dialog">>

\* both lists non-empty: the run went through ConversationMembersAdded
C6_Witness ==
    /\ Quiescent(1) /\ EveryHandlerContinues(1)
    /\ runs[1].activity.type = "conversationUpdate"
    /\ Filled(runs[1].activity.membersAdded)
    /\ Filled(runs[1].activity.membersRemoved)
    /\ Invoked(1) = << <<"ConversationUpdate", 0>>, <<"ConversationMembersAdded", 0>> >>

(***************************************************************************)
(* C7  Unknown type                                                        *)
(***************************************************************************)
\* C7: an activity whose type is none of the twelve known ones, or missing,
\* dispatches no category but Turn, UnrecognizedActivityType and Dialog;
\* when every handler continues the run dispatches exactly these three, in
\* this order, and completes.
C7_UnknownType ==
    \A r \in RunIds :
        runs[r].status # "idle" /\ runs[r].activity.type \notin KnownTypes =>
            /\ Range(Dispatched(r)) \subseteq {"Turn", "UnrecognizedActivityType", "Dialog"}
            /\ Quiescent(r) /\ EveryHandlerContinues(r) =>
                    /\ Dispatched(r) = <<"Turn", "UnrecognizedActivityType", "Dialog">>
                    /\ runs[r].status = "completed"

\* an activity without type went through an UnrecognizedActivityType handler
\* and a Dialog handler
C7_Witness ==
    /\ Quiescent(1) /\ EveryHandlerContinues(1)
    /\ runs[1].activity.type = "undefined"
    /\ Invoked(1) = << <<"UnrecognizedActivityType", 0>>, <<"Dialog", 0>> >>
    /\ runs[1].status = "completed"

(***************************************************************************)
(* C8  run returns only when the dispatch is finished                      *)
(***************************************************************************)
\* run r has settled with nothing of it left to run: no handler body is
\* executing, none is entered afterwards
NothingLeft(r) ==
    /\ runs[r].threads = <<>>
    /\ \A j, k \in DOMAIN runs[r].trace :
          j < k /\ runs[r].trace[j].ev \in {"completed", "failed"}
            => runs[r].trace[k].ev # "invoke"

\* C8 as claimed: whatever the handlers do, once run has settled nothing
\* of the run is left to run.
C8_RunReturnsWhenFinished ==
    \A r \in RunIds : runs[r].status \in {"completed", "failed"} => NothingLeft(r)

\* C8 amended: the same, for the runs in which every handler that called
\* its continuation awaited it.
C8_RunReturnsWhenAwaited ==
    \A r \in RunIds :
        runs[r].status \in {"completed", "failed"} /\ EveryHandlerAwaits(r)
            => NothingLeft(r)

\* a run settled after two handlers, the second of them in the Dialog chain
C8_Witness ==
    /\ runs[1].status = "completed" /\ EveryHandlerAwaits(1)
    /\ Len(Invoked(1)) = 2
    /\ Invoked(1)[2] = <<"Dialog", 0>>

(***************************************************************************)
(* C9  Turn is outermost                                                   *)
(***************************************************************************)
\* no handler of another category has been invoked unless every Turn
\* handler has called its continuation
TurnChainPassed(r) ==
    (\E k \in DOMAIN runs[r].trace :
        runs[r].trace[k].ev = "invoke" /\ runs[r].trace[k].cat # "Turn")
    => \A i \in 0..(Len(ChainFor("Turn")) - 1) : CalledNext(r, "Turn", i)

\* C9 as claimed: no Turn handler is invoked after a handler of another
\* category, and other categories wait for the whole Turn chain.
C9_TurnOutermost ==
    \A r \in RunIds :
        /\ \A j, k \in DOMAIN runs[r].trace :
              /\ j < k
              /\ runs[r].trace[j].ev = "invoke" /\ runs[r].trace[j].cat # "Turn"
              /\ runs[r].trace[k].ev = "invoke"
              => runs[r].trace[k].cat # "Turn"
        /\ TurnChainPassed(r)

\* C9 amended: every Turn handler is invoked for the first time before any
\* handler of another category, and other categories wait for the whole
\* Turn chain; a Turn handler is invoked after a handler of another
\* category only when a Turn handler has called its continuation again.
C9_TurnFirstInvokedOutermost ==
    \A r \in RunIds :
        /\ \A j, k \in DOMAIN runs[r].trace :
              /\ j < k
              /\ runs[r].trace[j].ev = "invoke" /\ runs[r].trace[j].cat # "Turn"
              /\ runs[r].trace[k].ev = "invoke" /\ runs[r].trace[k].cat = "Turn"
              => /\ \E i \in 1..(j - 1) :
                        /\ runs[r].trace[i].ev = "invoke"
                        /\ runs[r].trace[i].cat = "Turn"
                        /\ runs[r].trace[i].idx = runs[r].trace[k].idx
                 /\ \E i \in 1..(k - 1) :
                        /\ runs[r].trace[i].ev = "again"
                        /\ runs[r].trace[i].cat = "Turn"
                        /\ runs[r].trace[i].idx < runs[r].trace[k].idx
        /\ TurnChainPassed(r)

\* two Turn handlers ran, then a Message handler
C9_Witness ==
    /\ Len(Invoked(1)) >= 3
    /\ SubSeq(Invoked(1), 1, 3) = << <<"Turn", 0>>, <<"Turn", 1>>, <<"Message", 0>> >>

(***************************************************************************)
(* C10  Failure propagation                                                *)
(***************************************************************************)
\* the handler of the throw at trace position k failed run r: the run is
\* failed with that handler's error, nothing was entered after the throw,
\* nothing is left to run, and what the handlers did before is still there
FailedBy(r, k) ==
    LET e == runs[r].trace[k]
    IN  /\ runs[r].status = "failed"
        /\ runs[r].error = [cat |-> e.cat, idx |-> e.idx, path |-> e.path]
        /\ \A j \in DOMAIN runs[r].trace :
              j > k => runs[r].trace[j].ev \notin {"invoke", "dispatch"}
        /\ runs[r].threads = <<>>
        /\ \A h \in DOMAIN runs[r].choice :
              /\ h \in Range(Invoked(r))
              /\ \E j \in 1..k : /\ runs[r].trace[j].ev = runs[r].choice[h]
                                 /\ <<runs[r].trace[j].cat, runs[r].trace[j].idx>> = h

ChainBefore(c) == IF c \in DOMAIN lastOn.before THEN lastOn.before[c] ELSE <<>>

\* C11: the call on(C, h) just made returned the registry itself, left C's
\* chain equal to its previous chain with h appended at the end (also when
\* h was in it already) and left every other category's chain as it was.
C11_RegistrationAppends ==
    lastOn # NoCall =>
        /\ lastOn.returned = "this"
        /\ ChainFor(lastOn.type) = Append(ChainBefore(lastOn.type), lastOn.handler)
        /\ \A c \in Categories \ {lastOn.type} : ChainFor(c) = ChainBefore(c)

\* h1 was registered for Message a second time, after h2
C11_Witness ==
    /\ lastOn.type = "Message" /\ lastOn.handler = "h1"
    /\ lastOn.before = [Message |-> <<"h1", "h2">>]
    /\ ChainFor("Message") = <<"h1", "h2", "h1">>

(***************************************************************************)
(* C12  Event sub-branch                                                   *)
(***************************************************************************)
\* C12: in an event run, CreateConversation is dispatched only when the
\* name is "createConversation", ContinueConversation only when it is
\* "continueConversation", never both; when every handler continues, the
\* dispatches are Turn, Event, the one sub-category if any, Dialog.
C12_EventSubBranch ==
    \A r \in RunIds :
        runs[r].activity.type = "event" =>
            LET a == runs[r].activity
                d == Dispatched(r)
                sub == IF a.name = "createConversation" THEN <<"CreateConversation">>
                       ELSE IF a.name = "continueConversation"
                            THEN <<"ContinueConversation">>
                       ELSE <<>>
            IN  /\ "CreateConversation" \in Range(d) => a.name = "createConversation"
                /\ "ContinueConversation" \in Range(d) => a.name = "continueConversation"
                /\ ~("CreateConversation" \in Range(d)
                        /\ "ContinueConversation" \in Range(d))
                /\ Quiescent(r) /\ EveryHandlerContinues(r) =>
                        d = <<"Turn", "Event">> \o sub \o <<"Dialog">>

\* an event named continueConversation went through an Event handler and a
\* ContinueConversation handler
C12_Witness ==
    /\ Quiescent(1) /\ EveryHandlerContinues(1)
    /\ runs[1].activity.type = "event"
    /\ runs[1].activity.name = "continueConversation"
    /\ Invoked(1) = << <<"Event", 0>>, <<"ContinueConversation", 0>> >>

\* an event with another name went from the Event chain to Dialog
C12_WitnessOther ==
    /\ Quiescent(1) /\ EveryHandlerContinues(1)
    /\ runs[1].activity.type = "event"
    /\ runs[1].activity.name = "other"
    /\ Invoked(1) = << <<"Event", 0>>, <<"Dialog", 0>> >>

(***************************************************************************)
(* C13  No overlap within one run                                          *)
(***************************************************************************)
\* thread t of run r is inside a handler body (not waiting for a call the
\* body awaits)
Executing(r, t) == Top(Machine(r, t)).k = "handler"

\* no two handler bodies of one chain are executing at once
NoOverlap(r) ==
    \A t1, t2 \in DOMAIN runs[r].threads :
        t1 # t2 /\ Executing(r, t1) /\ Executing(r, t2)
            => Top(Machine(r, t1)).cat # Top(Machine(r, t2)).cat

\* a chain was dispatched only after every handler of the chains around
\* it had called its continuation
NestedAfterContinuation(r) ==
    \A k \in DOMAIN runs[r].trace :
        LET d == runs[r].trace[k]
        IN  d.ev = "dispatch" =>
                \A n \in 1..(Len(d.path) - 1) :
                    \A i \in 0..(Len(ChainFor(d.path[n])) - 1) :
                        \E j \in 1..(k - 1) :
                            /\ runs[r].trace[j].ev \in {"pass", "detach", "twice", "again"}
                            /\ runs[r].trace[j].cat = d.path[n]
                            /\ runs[r].trace[j].idx = i

\* C13 as claimed: whatever the handlers do, no two handlers of one chain
\* execute at once and no nested chain starts before the handlers of the
\* enclosing chain have called their continuation.
C13_NoOverlap ==
    \A r \in RunIds : NoOverlap(r) /\ NestedAfterContinuation(r)

\* C13 amended: the same, for the runs in which every handler that called
\* its continuation awaited it.
C13_NoOverlapWhenAwaited ==
    \A r \in RunIds :
        /\ EveryHandlerAwaits(r) => NoOverlap(r)
        /\ NestedAfterContinuation(r)

\* the second handler of a chain is executing while the first awaits it
C13_Witness ==
    /\ EveryHandlerAwaits(1)
    /\ Len(runs[1].threads) = 1
    /\ Executing(1, 1)
    /\ Top(Machine(1, 1)).idx = 1
    /\ \E n \in DOMAIN runs[1].threads[1] :
          /\ runs[1].threads[1][n].k = "handler"
          /\ runs[1].threads[1][n].cat = Top(Machine(1, 1)).cat
          /\ runs[1].threads[1][n].idx = 0
          /\ runs[1].threads[1][n].pc = "pass"

(***************************************************************************)
(* C14  Concurrent dispatch isolation                                      *)
(***************************************************************************)
\* The machine m run alone, with nothing else in between, for n handler
\* bodies: each body it enters does what `choice` says.
RECURSIVE SoloRun(_, _, _)
SoloRun(m, choice, n) ==
    IF n = 0 \/ m.stack = <<>> \/ Top(m).k # "handler" \/ Top(m).pc # "start" THEN m
    ELSE LET h == <<Top(m).cat, Top(m).idx>>
         IN  IF h \notin DOMAIN choice \/ choice[h] = "detach" THEN m
             ELSE SoloRun(Acted(m, choice[h]), choice, n - 1)

\* the handler bodies that have acted in run r
BodiesActed(r) ==
    Len(SelectSeq(runs[r].trace,
                  LAMBDA e : e.ev \in {"pass", "veto", "throw", "twice", "detach"}))

\* run r is where the same activity run alone is after as many handler
\* bodies, with the same handlers doing the same: same dispatches and
\* invocations in the same order, same outcome
AsAlone(r) ==
    LET s == SoloRun(Entered(runs[r].activity), runs[r].choice, BodiesActed(r))
    IN  /\ runs[r].trace = s.trace
        /\ runs[r].status = s.status
        /\ runs[r].error = s.error
        /\ runs[r].threads = Compact(<<s.stack>>)

\* C14: with two runs in flight at once on one registry, under every
\* interleaving of their handler steps, each run whose handlers wait for
\* their continuations has dispatched and invoked exactly what it does
\* when run alone, in the same order.
C14_ConcurrentIsolation ==
    \A r \in RunIds :
        runs[r].status # "idle" /\ EveryHandlerAwaits(r) => AsAlone(r)

\* two runs of different activities are in flight at once, each two
\* handlers deep
C14_Witness ==
    /\ runs[1].status = "running" /\ runs[2].status = "running"
    /\ runs[1].activity.type # runs[2].activity.type
    /\ EveryHandlerAwaits(1) /\ EveryHandlerAwaits(2)
    /\ Len(Invoked(1)) = 2 /\ Len(Invoked(2)) = 2

(***************************************************************************)
(* C15  One type category, unrelated fields ignored                        *)
(***************************************************************************)
\* the thirteen categories of the type level
TypeLevel ==
    {"Message", "ContactRelationUpdate", "ConversationUpdate",
     "EndOfConversation", "Event", "Invoke", "InstallationUpdate",
     "MessageDelete", "MessageUpdate", "MessageReaction", "Typing", "Handoff",
     "UnrecognizedActivityType"}

\* the type under which a sub-category is dispatched
ParentType(cat) ==
    CASE cat \in {"ConversationMembersAdded", "ConversationMembersRemoved"} ->
            "conversationUpdate"
      [] cat \in {"CreateConversation", "ContinueConversation"} -> "event"
      [] cat \in {"MessageReactionAdded", "MessageReactionRemoved"} ->
            "messageReaction"

\* activities a and b agree on the type and on the fields run() reads for it
SameRelevant(a, b) ==
    a.type = b.type /\ \A f \in FieldsRead(a.type) : a[f] = b[f]

\* every handler of the registry doing `await next()`
AllPass ==
    [h \in UNION {{<<c, i - 1>> : i \in DOMAIN handlers[c]} : c \in DOMAIN handlers}
        |-> "pass"]

\* the categories activity b is dispatched to, in order, when it is run
\* alone on the registry with every handler doing `await next()` (no chain
\* is dispatched more than three times in a run)
DispatchedAlone(b) ==
    LET s == SoloRun(Entered(b), AllPass, 3 * Registered + 1)
        d == SelectSeq(s.trace, LAMBDA e : e.ev = "dispatch")
    IN  [i \in DOMAIN d |-> d[i].cat]

\* C15: in every run at most one of the thirteen type categories is
\* dispatched, exactly one when every handler continues; a sub-category is
\* dispatched only in a run of its parent type; and the sequence of
\* categories of a run whose handlers all continue is that of every activity
\* agreeing with the run's on the type and on the fields that type reads.
C15_OneTypeCategory ==
    \A r \in RunIds :
        runs[r].status # "idle" =>
            LET d == Dispatched(r)
                a == runs[r].activity
            IN  /\ Cardinality(Range(d) \cap TypeLevel) <= 1
                /\ \A c \in Range(d) \ (TypeLevel \cup {"Turn", "Dialog"}) :
                        ParentType(c) = a.type
                /\ Quiescent(r) /\ EveryHandlerContinues(r) /\ EveryHandlerAwaits(r) =>
                        /\ Cardinality(Range(d) \cap TypeLevel) = 1
                        /\ \A b \in Activities :
                                SameRelevant(a, b) => d = DispatchedAlone(b)

\* a message carrying members and reactions went through the Message and
\* Dialog chains, past a registered ConversationMembersAdded handler
C15_Witness ==
    /\ Quiescent(1) /\ EveryHandlerContinues(1) /\ EveryHandlerAwaits(1)
    /\ runs[1].activity.type = "message"
    /\ Filled(runs[1].activity.membersAdded)
    /\ Filled(runs[1].activity.reactionsAdded)
    /\ ChainFor("ConversationMembersAdded") # <<>>
    /\ Dispatched(1) = <<"Turn", "Message", "Dialog">>
    /\ Invoked(1) = << <<"Message", 0>> >>

(***************************************************************************)
(* C16  Empty chain is transparent                                         *)
(***************************************************************************)
\* the dispatches made between trace position k, a dispatch, and the next
\* dispatch of the same chain on the same path, directly beneath it; the
\* continuation of Turn starts with the dispatch of a type category
NestedDispatches(r, k) ==
    LET t == runs[r].trace
        p == t[k].path
        again == {j \in (k + 1)..Len(t) : t[j].ev = "dispatch" /\ t[j].path = p}
        last == IF again = {} THEN Len(t)
                ELSE (CHOOSE j \in again : \A i \in again : j <= i) - 1
    IN  {j \in (k + 1)..last :
            /\ t[j].ev = "dispatch"
            /\ Len(t[j].path) = Len(p) + 1
            /\ SubSeq(t[j].path, 1, Len(p)) = p
            /\ t[k].cat = "Turn" => t[j].cat \in TypeLevel}

\* C16: every dispatch of a category without handlers runs the
\* continuation it was given, at once and exactly once (the continuation of
\* Dialog does nothing), and fails nothing; on a registry without handlers
\* every run completes with no handler invoked.
C16_EmptyChainTransparent ==
    \A r \in RunIds :
        /\ \A k \in DOMAIN runs[r].trace :
              LET e == runs[r].trace[k]
              IN  e.ev = "dispatch" /\ ChainFor(e.cat) = <<>> =>
                    IF e.cat = "Dialog" THEN NestedDispatches(r, k) = {}
                    ELSE NestedDispatches(r, k) = {k + 1}
        /\ (\A k \in DOMAIN runs[r].trace : runs[r].trace[k].ev # "throw")
              => runs[r].status # "failed"
        /\ DOMAIN handlers = {} /\ runs[r].status # "idle" =>
              /\ runs[r].status = "completed"
              /\ Invoked(r) = <<>>
              /\ runs[r].threads = <<>>

\* a conversationUpdate with members added went through three chains
\* without handlers to the one handler registered, for Dialog
C16_Witness ==
    /\ DOMAIN handlers = {"Dialog"}
    /\ runs[1].status = "completed"
    /\ Dispatched(1) = <<"Turn", "ConversationUpdate", "ConversationMembersAdded", "Dialog">>
    /\ Invoked(1) = << <<"Dialog", 0>> >>

\* a messageReaction run completed on a registry without handlers
C16_WitnessNoHandlers ==
    /\ DOMAIN handlers = {}
    /\ runs[1].status = "completed"
    /\ runs[1].activity.type = "messageReaction"
    /\ Len(Dispatched(1)) > 2

(***************************************************************************)
(* C17  MessageReaction veto independence                                  *)
(***************************************************************************)
\* a handler of category c returned without calling its continuation
Vetoed(r, c) ==
    \E k \in DOMAIN runs[r].trace :
        runs[r].trace[k].ev = "veto" /\ runs[r].trace[k].cat = c

\* category c followed by the Dialog dispatch attached to it, which a veto
\* in the chain of c stops
ChainThenDialog(r, c) == IF Vetoed(r, c) THEN <<c>> ELSE <<c, "Dialog">>

\* every handler body that acted awaited its continuation once or returned
\* without calling it, and no handler of Turn did the latter
AwaitsOrVetoes(r) ==
    /\ \A k \in DOMAIN runs[r].trace :
          runs[r].trace[k].ev \in {"dispatch", "invoke", "pass", "veto", "completed"}
    /\ ~Vetoed(r, "Turn")

C17_WitnessAdded ==
    /\ runs[1].status = "completed"
    /\ Vetoed(1, "MessageReactionAdded")
    /\ Dispatched(1) = <<"Turn", "MessageReaction", "Dialog", "MessageReactionAdded",
                         "MessageReactionRemoved", "Dialog">>

(***************************************************************************)
(* C18  Dialog multiplicity on MessageReaction                             *)
(***************************************************************************)
\* the number of times the Dialog chain was dispatched in run r
DialogRuns(r) == Len(SelectSeq(Dispatched(r), LAMBDA c : c = "Dialog"))

\* the number of handle() calls of the MessageReaction case for activity a
ReactionChains(a) ==
    1 + (IF NonEmpty(a.reactionsAdded) THEN 1 ELSE 0)
      + (IF NonEmpty(a.reactionsRemoved) THEN 1 ELSE 0)

C18_WitnessOther ==
    /\ Quiescent(1) /\ EveryHandlerContinues(1)
    /\ runs[1].activity.type = "conversationUpdate"
    /\ DialogRuns(1) = 1
    /\ Len(Invoked(1)) = 2

(***************************************************************************)
(* C19  Continuation calls are not guarded                                 *)
(***************************************************************************)
\* the number of events of run r that satisfy Test
Count(r, Test(_)) == Len(SelectSeq(runs[r].trace, Test))

\* the number of times the handler at index i of the chain dispatched on
\* path p was invoked
Invocations(r, p, i) ==
    Count(r, LAMBDA e : e.ev = "invoke" /\ e.path = p /\ e.idx = i)

\* the number of times the continuation passed to that handler was called
ContinuationCalls(r, p, i) ==
    Count(r, LAMBDA e : /\ e.ev \in {"pass", "detach", "twice", "again"}
                        /\ e.path = p /\ e.idx = i)

\* the number of times the chain on path p was dispatched
Dispatches(r, p) == Count(r, LAMBDA e : e.ev = "dispatch" /\ e.path = p)

\* the number of times the terminal continuation of the chain on path p ran:
\* each time it starts with one dispatch directly beneath p, of a type
\* category beneath Turn
TerminalCalls(r, p) ==
    Count(r, LAMBDA e : /\ e.ev = "dispatch"
                        /\ Len(e.path) = Len(p) + 1
                        /\ SubSeq(e.path, 1, Len(p)) = p
                        /\ p = <<"Turn">> => e.cat \in TypeLevel)

\* the paths of the chains dispatched in run r
DispatchedPaths(r) ==
    {runs[r].trace[k].path : k \in {j \in DOMAIN runs[r].trace : runs[r].trace[j].ev = "dispatch"}}

\* C19: over the dispatches of a chain in a run, the first handler is
\* invoked once per dispatch, the handler at index i + 1 as many times as
\* the continuation passed to the handler at index i was called, and the
\* chain's terminal continuation (other than the one of Dialog, which does
\* nothing) as many times as the continuation of the last handler was
\* called.
C19_ContinuationNotGuarded ==
    \A r \in RunIds : \A p \in DispatchedPaths(r) :
        LET c == p[Len(p)]
            n == Len(ChainFor(c))
        IN  n > 0 =>
              /\ Invocations(r, p, 0) = Dispatches(r, p)
              /\ \A i \in 0..(n - 2) :
                    Invocations(r, p, i + 1) = ContinuationCalls(r, p, i)
              /\ c # "Dialog" => TerminalCalls(r, p) = ContinuationCalls(r, p, n - 1)

\* the first handler of Turn called its continuation twice: the second
\* handler of Turn, the Message chain beneath it and the Dialog chain each
\* ran twice
C19_Witness ==
    /\ Quiescent(1)
    /\ Len(ChainFor("Turn")) = 2
    /\ ContinuationCalls(1, <<"Turn">>, 0) = 2
    /\ Invocations(1, <<"Turn">>, 1) = 2
    /\ ContinuationCalls(1, <<"Turn">>, 1) = 2
    /\ Dispatches(1, <<"Turn", "Message">>) = 2
    /\ Dispatches(1, <<"Turn", "Message", "Dialog">>) = 2
    /\ Invocations(1, <<"Turn", "Message", "Dialog">>, 0) = 2

(***************************************************************************)
(* C20  Dispatch does not mutate the registry                              *)
(***************************************************************************)
\* C20: every step of a run (its start, a handler body acting, its context
\* being dropped) leaves the chain of every category as it was, same
\* handlers in the same order; only on() changes a chain, and no handler
\* calls it.
C20_DispatchKeepsRegistry ==
    [][runs' # runs => \A c \in Categories : ChainFor(c)' = ChainFor(c)]_vars

\* a run failed after two handlers were invoked, on a registry of two chains
C20_Witness ==
    /\ runs[1].status = "failed"
    /\ Len(Invoked(1)) = 2
    /\ Cardinality(DOMAIN handlers) = 2

\* a run completed although a handler vetoed
C20_WitnessVetoed ==
    /\ runs[1].status = "completed"
    /\ \E k \in DOMAIN runs[1].trace : runs[1].trace[k].ev = "veto"
    /\ Registered = MaxHandlers

\* a run completed with every handler continuing
C20_WitnessCompleted ==
    /\ Quiescent(1) /\ EveryHandlerContinues(1)
    /\ Len(Invoked(1)) >= 2
    /\ Registered = MaxHandlers

====
